---- MODULE Spec2Model ----
(***************************************************************************)
(* Model of io_import_trc.py: the TRC parser read_trc and the keyframe     *)
(* materializer import_trc, as driven by the operator                      *)
(* IMPORT_OT_mocap_trc.execute.                                            *)
(*                                                                         *)
(* The input file is not stored: every reader.__next__() draws the next    *)
(* row (or end-of-file) from a bounded set, which covers every file whose  *)
(* rows are in those sets.  Floats are modelled as exact rationals with    *)
(* the two non-finite values float() can produce from text ("inf", "nan"); *)
(* binary64 rounding is not modelled.  Marker names are distinct within    *)
(* one name row, as the data model requires.                               *)
(***************************************************************************)
EXTENDS Integers, Sequences, FiniteSets, TLC

\* ------------------------------------------------------------------ bounds
MaxRows == 2          \* data rows read from one file

\* ------------------------------------------------------------- constants
ScaleDen == 1000      \* SCALE = 0.001 = 1 / ScaleDen

\* ---------------------------------------------------------------- floats
Fin(n, d) == [cls |-> "finite", num |-> n, den |-> d]
PosInf    == [cls |-> "inf", num |-> 1, den |-> 1]
NaN       == [cls |-> "nan", num |-> 0, den |-> 1]
Zero      == Fin(0, 1)
One       == Fin(1, 1)

Abs(n) == IF n < 0 THEN -n ELSE n
Sgn(n) == IF n < 0 THEN -1 ELSE IF n = 0 THEN 0 ELSE 1

\* a < b on floats (every comparison with nan is False)
FLess(a, b) ==
    IF a.cls = "nan" \/ b.cls = "nan" THEN FALSE
    ELSE IF a.cls = "inf" THEN a.num < 0 /\ ~(b.cls = "inf" /\ b.num < 0)
    ELSE IF b.cls = "inf" THEN b.num > 0
    ELSE a.num * b.den < b.num * a.den

\* a == b on floats
FEq(a, b) ==
    IF a.cls = "nan" \/ b.cls = "nan" THEN FALSE
    ELSE IF a.cls = "inf" \/ b.cls = "inf"
         THEN a.cls = b.cls /\ a.num = b.num
    ELSE a.num * b.den = b.num * a.den

\* a * b on floats
FMul(a, b) ==
    IF a.cls = "nan" \/ b.cls = "nan" THEN NaN
    ELSE IF a.cls = "inf" \/ b.cls = "inf"
         THEN IF a.num = 0 \/ b.num = 0 THEN NaN
              ELSE [cls |-> "inf", num |-> Sgn(a.num) * Sgn(b.num), den |-> 1]
    ELSE Fin(a.num * b.num, a.den * b.den)

\* a / b on floats, for b # 0 (Python raises ZeroDivisionError for b == 0)
FDiv(a, b) ==
    IF a.cls = "nan" \/ b.cls = "nan" THEN NaN
    ELSE IF b.cls = "inf"
         THEN IF a.cls = "inf" THEN NaN ELSE Zero
    ELSE IF a.cls = "inf"
         THEN [cls |-> "inf", num |-> Sgn(a.num) * Sgn(b.num), den |-> 1]
    ELSE Fin(Sgn(b.num) * a.num * b.den, a.den * Abs(b.num))

IsZero(a) == a.cls = "finite" /\ a.num = 0

\* ------------------------------------------------- text to number (Python)
\* float(tok): the tokens float() accepts, with their values
FloatTokens == {"0.0", "1.0", "2.0", "3.0", "30.0", "-30.0", "inf", "nan",
                "1", "2", "3"}
IsFloat(tok) == tok \in FloatTokens
PyFloat(tok) ==
    CASE tok = "0.0"   -> Zero
      [] tok = "1.0"   -> Fin(1, 1)
      [] tok = "2.0"   -> Fin(2, 1)
      [] tok = "3.0"   -> Fin(3, 1)
      [] tok = "30.0"  -> Fin(30, 1)
      [] tok = "-30.0" -> Fin(-30, 1)
      [] tok = "1"     -> Fin(1, 1)
      [] tok = "2"     -> Fin(2, 1)
      [] tok = "3"     -> Fin(3, 1)
      [] tok = "inf"   -> PosInf
      [] tok = "nan"   -> NaN

\* int(tok): decimal integer literals only ("3.0" is a ValueError)
IntTokens == {"1", "2", "3"}
IsInt(tok) == tok \in IntTokens
PyInt(tok) ==
    CASE tok = "1" -> 1
      [] tok = "2" -> 2
      [] tok = "3" -> 3

\* ------------------------------------------------------- Python sequences
Min(a, b) == IF a < b THEN a ELSE b

\* s[a:b] for 0 <= a, 0 <= b (clipped to the sequence)
PySlice(s, a, b) == SubSeq(s, a + 1, Min(b, Len(s)))

\* row[2:-1]
TrimRow(row) == IF Len(row) <= 3 THEN << >> ELSE SubSeq(row, 3, Len(row) - 1)

\* [nl[i] for i in range(len(nl)) if i % 3 == 0]
EveryThird(nl) == [k \in 1..((Len(nl) + 2) \div 3) |-> nl[3 * (k - 1) + 1]]

Range(s) == {s[i] : i \in 1..Len(s)}

\* ------------------------------------------------------------ input rows
Names == {"Hip", "Knee"}

NameBodies ==
    {<< >>}
    \cup {<<a, "", "">> : a \in Names}
    \cup {<<a, "", "", b, "", "">> : a, b \in Names}
    \cup {<<a, "", "", b>> : a, b \in Names}

NameRows ==
    {<< >>}
    \cup {<<"Frame#", "Time">> \o nb \o <<"">> :
            nb \in {b \in NameBodies : Len(b) < 4 \/ b[1] # b[4]}}

GoodHeader(cr) == <<"30.0", cr, "2", "2", "mm", "30.0", "1", "2">>
HeaderRows ==
    {GoodHeader(cr) : cr \in {"30.0", "-30.0", "0.0", "inf"}}
    \cup {<<"30.0", "abc", "2", "2", "mm", "30.0", "1", "2">>,
          <<"30.0", "30.0", "2.0", "2", "mm", "30.0", "1", "2">>,
          <<"30.0", "30.0">>}

TripletN == <<"1.0", "2.0", "3.0">>      \* all numeric
TripletB == <<"1.0", "", "3.0">>         \* blank field (occlusion gap)
TripletQ == <<"nan", "2.0", "3.0">>      \* the text "nan"
Triplets == {TripletN, TripletB, TripletQ}

RowBodies ==
    {<< >>}
    \cup Triplets
    \cup {a \o b : a, b \in Triplets}
    \cup {TripletN \o TripletN \o TripletN}
DataRows ==
    {<< >>}
    \cup {<<"1", "0.0">> \o rb \o <<"">> : rb \in RowBodies}
    \cup {<<"1", "0.0">> \o rb \o <<"3.0", "">> :
            rb \in {<< >>, TripletN, TripletN \o TripletN}}

FpsValues == {24, 30}

\* ----------------------------------------------------------------- state
VARIABLES
    pc,            \* position of the running import, "idle" between imports
    exc,           \* exception that ended the call, "none" otherwise
    file,          \* handle opened by the latest read_trc
    markers,       \* TRCData.markers: the class-level dict
    data,          \* instance attributes set on the TRCData instance
    marker_names,  \* read_trc local
    line,          \* read_trc local: the data row being processed
    nrows,         \* data rows drawn from the file so far
    all_numeric,   \* every field of every data row so far converts
    returned_any,  \* some read_trc call has returned a dataset
    created,       \* names of the objects added by the running import
    marker_name,   \* import_trc local
    fps,           \* bpy.context.scene.render.fps as read at line 157
    index_to_time, \* import_trc local
    n_frames, n_loc_frames, index, keyframe_index,
    fcu            \* keyframe_points of fcu_x, fcu_y, fcu_z, fcu_h, fcu_r

vars == <<pc, exc, file, markers, data, marker_names, line, nrows,
          all_numeric, returned_any, created, marker_name, fps,
          index_to_time, n_frames, n_loc_frames, index, keyframe_index, fcu>>

readVars == <<marker_names, line, nrows, all_numeric, data>>
matVars  == <<created, marker_name, fps, index_to_time, n_frames,
              n_loc_frames, index, keyframe_index, fcu>>

NoData == [data_rate |-> Zero, camera_rate |-> Zero, num_frames |-> 0,
           num_markers |-> 0, units |-> "mm", orig_data_rate |-> Zero,
           orig_data_start |-> 0, orig_num_frames |-> 0]
NoFcu  == [x |-> << >>, y |-> << >>, z |-> << >>, h |-> << >>, r |-> << >>]
EmptyDict == [n \in {} |-> << >>]

Init ==
    /\ pc = "idle" /\ exc = "none" /\ file = "unopened"
    /\ markers = EmptyDict
    /\ data = NoData
    /\ marker_names = << >> /\ line = << >> /\ nrows = 0
    /\ all_numeric = TRUE /\ returned_any = FALSE
    /\ created = {} /\ marker_name = ""
    /\ fps = 0 /\ index_to_time = Zero
    /\ n_frames = 0 /\ n_loc_frames = 0 /\ index = 0 /\ keyframe_index = 0
    /\ fcu = NoFcu

\* ------------------------------------------------------------- read_trc
HeaderFields == <<"data_rate", "camera_rate", "num_frames", "num_markers",
                  "units", "orig_data_rate", "orig_data_start",
                  "orig_num_frames">>
FloatFields == {1, 2, 6}
IntFields   == {3, 4, 7, 8}

\* the assignments data.<field> = conv(md[k-1]) in order, from field k on;
\* stops at the first md[k-1] that is missing or does not convert
RECURSIVE ParseHeader(_, _, _)
ParseHeader(d, md, k) ==
    IF k > 8 THEN [exc |-> "none", data |-> d]
    ELSE IF k > Len(md) THEN [exc |-> "IndexError", data |-> d]
    ELSE IF k \in FloatFields /\ ~IsFloat(md[k])
         THEN [exc |-> "ValueError", data |-> d]
    ELSE IF k \in IntFields /\ ~IsInt(md[k])
         THEN [exc |-> "ValueError", data |-> d]
    ELSE ParseHeader(
            [d EXCEPT ![HeaderFields[k]] =
                IF k \in FloatFields THEN PyFloat(md[k])
                ELSE IF k \in IntFields THEN PyInt(md[k]) ELSE md[k]],
            md, k + 1)

\* for mn in marker_names: data.markers[mn] = []
ResetTracks(mk, names) ==
    [n \in (DOMAIN mk) \cup Range(names) |->
        IF n \in Range(names) THEN << >> ELSE mk[n]]

\* mutation of AssertOK: the assertion is not evaluated
AssertOK_Stripped(rt) == TRUE

\* assert(len(rt) % 3 == 0)
AssertOK(rt) == Len(rt) % 3 = 0

None == << >>

\* mutation of TryVector: a bare "except:" that also catches IndexError
TryVector_CatchAll(co) ==
    IF Len(co) >= 3 /\ \A j \in 1..3 : IsFloat(co[j])
    THEN [exc |-> "none",
          v |-> <<PyFloat(co[1]), PyFloat(co[2]), PyFloat(co[3])>>]
    ELSE [exc |-> "ValueError", v |-> None]

\* the body of the try block on co: float(co[0]), float(co[1]),
\* float(co[2]) in order, then Vector((x, y, z)); the first field that is
\* missing raises IndexError, the first that does not convert ValueError
TryVector(co) ==
    LET bad == {j \in 1..3 : j > Len(co) \/ ~IsFloat(co[j])}
        first == CHOOSE j \in bad : \A k \in bad : j <= k
    IN  IF bad = {}
        THEN [exc |-> "none",
              v |-> <<PyFloat(co[1]), PyFloat(co[2]), PyFloat(co[3])>>]
        ELSE IF first > Len(co) THEN [exc |-> "IndexError", v |-> None]
        ELSE [exc |-> "ValueError", v |-> None]

\* mutation of Triplet: ofs = index
Triplet_NoStride(rt, idx) == PySlice(rt, idx, idx + 3)

\* ofs = index * 3; co = rt[ofs:ofs + 3]
Triplet(rt, idx) == PySlice(rt, idx * 3, idx * 3 + 3)

\* for marker_name in marker_names: ... from the marker at position i on
\* (index = i - 1); ValueError is caught and appends None, IndexError
\* propagates and leaves the appends already made
RECURSIVE ProcessRow(_, _, _, _)
ProcessRow(mk, names, rt, i) ==
    IF i > Len(names) THEN [exc |-> "none", markers |-> mk]
    ELSE LET t == TryVector(Triplet(rt, i - 1))
         IN  IF t.exc = "IndexError"
             THEN [exc |-> "IndexError", markers |-> mk]
             ELSE ProcessRow([mk EXCEPT ![names[i]] = Append(@, t.v)],
                             names, rt, i + 1)

Raise(e) == /\ pc' = "failed" /\ exc' = e

\* execute -> import_trc -> read_trc: open the file, data = TRCData()
Execute ==
    /\ pc = "idle"
    /\ pc' = "skip_head" /\ exc' = "none"
    /\ file' = "open"
    /\ data' = NoData
    /\ marker_names' = << >> /\ line' = << >> /\ nrows' = 0
    /\ all_numeric' = TRUE
    /\ created' = {} /\ marker_name' = ""
    /\ fps' = 0 /\ index_to_time' = Zero
    /\ n_frames' = 0 /\ n_loc_frames' = 0 /\ index' = 0
    /\ keyframe_index' = 0 /\ fcu' = NoFcu
    /\ UNCHANGED <<markers, returned_any>>

\* reader.__next__(); reader.__next__()   (line 81)
SkipHead ==
    /\ pc = "skip_head"
    /\ \E eof \in BOOLEAN :
         IF eof THEN Raise("StopIteration")
         ELSE pc' = "header" /\ exc' = exc
    /\ UNCHANGED <<file, markers, returned_any>>
    /\ UNCHANGED readVars /\ UNCHANGED matVars

\* md = reader.__next__() and the eight header assignments (lines 84-92)
ReadHeader ==
    /\ pc = "header"
    /\ \/ Raise("StopIteration") /\ data' = data
       \/ \E md \in HeaderRows :
            LET h == ParseHeader(data, md, 1)
            IN  /\ data' = h.data
                /\ IF h.exc = "none" THEN pc' = "names" /\ exc' = exc
                    ELSE Raise(h.exc)
    /\ UNCHANGED <<file, markers, returned_any>>
    /\ UNCHANGED <<marker_names, line, nrows, all_numeric>>
    /\ UNCHANGED matVars

\* the marker-name row (lines 95-98)
ReadNames ==
    /\ pc = "names"
    /\ \/ Raise("StopIteration") /\ UNCHANGED <<marker_names, markers>>
       \/ \E row \in NameRows :
            LET mns == EveryThird(TrimRow(row))
            IN  /\ marker_names' = mns
                /\ markers' = ResetTracks(markers, mns)
                /\ pc' = "skip_labels" /\ exc' = exc
    /\ UNCHANGED <<file, returned_any, data, line, nrows, all_numeric>>
    /\ UNCHANGED matVars

\* reader.__next__(); reader.__next__()   (line 100)
SkipLabels ==
    /\ pc = "skip_labels"
    /\ \E eof \in BOOLEAN :
         IF eof THEN Raise("StopIteration")
         ELSE pc' = "rows" /\ exc' = exc
    /\ UNCHANGED <<file, markers, returned_any>>
    /\ UNCHANGED readVars /\ UNCHANGED matVars

\* one iteration of "for line in reader" (lines 103-118)
ReadLine ==
    /\ pc = "rows"
    /\ nrows < MaxRows
    /\ \E row \in DataRows :
         LET rt == TrimRow(row)
             res == ProcessRow(markers, marker_names, rt, 1)
         IN  /\ line' = row
             /\ nrows' = nrows + 1
             /\ all_numeric' = (all_numeric /\ \A j \in 1..Len(rt) : IsFloat(rt[j]))
             /\ IF ~AssertOK(rt)
                 THEN Raise("AssertionError") /\ markers' = markers
                 ELSE /\ markers' = res.markers
                      /\ IF res.exc = "none" THEN pc' = "rows" /\ exc' = exc
                         ELSE Raise(res.exc)
    /\ UNCHANGED <<file, returned_any, data, marker_names>>
    /\ UNCHANGED matVars

\* the reader is exhausted: file.close(); return data   (lines 121-122);
\* the row locals end with the call, marker_names is kept as the record of
\* the names of the file this import was given
EndOfData ==
    /\ pc = "rows"
    /\ pc' = "returned"
    /\ file' = "closed"
    /\ returned_any' = TRUE
    /\ line' = << >> /\ nrows' = 0 /\ all_numeric' = TRUE
    /\ UNCHANGED <<exc, markers, data, marker_names>>
    /\ UNCHANGED matVars

\* ----------------------------------------------------------- import_trc
\* mutation of ParseDone: objects are added while rows are still read
ParseDone_Streaming == pc \in {"rows", "returned"}

\* data = read_trc(context, filepath) has returned   (line 127)
ParseDone == pc = "returned"

\* keys of data.markers the loop of line 128 has not visited yet
Remaining == (DOMAIN markers) \ created

\* keyframe_points.add(n): n new points, none written yet
NewPoints(n) == [i \in 1..n |-> [co |-> <<Zero, Zero>>, writes |-> 0]]

\* keyframe_points[i].co = t, val   (i counted from 0)
SetCo(kps, i, t, val) ==
    [kps EXCEPT ![i + 1] = [co |-> <<t, val>>, writes |-> @.writes + 1]]

\* mutation of NLocFrames: len(m)
NLocFrames_All(m) == Len(m)

\* len([x for x in m if x is not None])
NLocFrames(m) == Cardinality({i \in 1..Len(m) : m[i] # None})

\* index_to_time = bpy.context.scene.render.fps / data.camera_rate
IndexToTime(f, camera_rate) == FDiv(Fin(f, 1), camera_rate)

\* mutation of TimeOf: time = index_to_time
TimeOf_NoIndex(idx, i2t) == i2t

\* time = index * index_to_time
TimeOf(idx, i2t) == FMul(Fin(idx, 1), i2t)

\* v[k] * SCALE
Scaled(x) == FMul(x, Fin(1, ScaleDen))

\* one pass of the loop of line 128 up to the keyframe loop: add the
\* object, create the five fcurves, allocate keyframes (lines 128-157)
CreateObject ==
    /\ ParseDone
    /\ \E mn \in Remaining, f \in FpsValues :
         LET m == markers[mn]
         IN  /\ created' = created \cup {mn}
             /\ marker_name' = mn
             /\ n_frames' = Len(m)
             /\ n_loc_frames' = NLocFrames(m)
             /\ fcu' = [x |-> NewPoints(NLocFrames(m)),
                        y |-> NewPoints(NLocFrames(m)),
                        z |-> NewPoints(NLocFrames(m)),
                        h |-> NewPoints(Len(m)),
                        r |-> NewPoints(Len(m))]
             /\ index' = 0 /\ keyframe_index' = 0
             /\ fps' = f
             /\ IF IsZero(data.camera_rate)
                 THEN Raise("ZeroDivisionError") /\ index_to_time' = index_to_time
                 ELSE /\ index_to_time' = IndexToTime(f, data.camera_rate)
                      /\ pc' = "keyframes" /\ exc' = exc
    /\ UNCHANGED <<file, markers, returned_any>>
    /\ UNCHANGED readVars

\* one iteration of "for v in m"   (lines 158-170)
SetKeyframe ==
    /\ pc = "keyframes"
    /\ index < n_frames
    /\ LET v == markers[marker_name][index + 1]
           time == TimeOf(index, index_to_time)
       IN  IF v # None
           THEN IF keyframe_index >= Len(fcu.x)
                THEN Raise("IndexError")
                     /\ UNCHANGED <<fcu, index, keyframe_index>>
                ELSE /\ fcu' = [x |-> SetCo(fcu.x, keyframe_index, time, Scaled(v[1])),
                                y |-> SetCo(fcu.y, keyframe_index, time, Scaled(v[2])),
                                z |-> SetCo(fcu.z, keyframe_index, time, Scaled(v[3])),
                                h |-> SetCo(fcu.h, index, time, Zero),
                                r |-> SetCo(fcu.r, index, time, Zero)]
                     /\ keyframe_index' = keyframe_index + 1
                     /\ index' = index + 1
                     /\ UNCHANGED <<pc, exc>>
           ELSE /\ fcu' = [fcu EXCEPT !.h = SetCo(fcu.h, index, time, One),
                                      !.r = SetCo(fcu.r, index, time, One)]
                /\ index' = index + 1
                /\ UNCHANGED <<pc, exc, keyframe_index>>
    /\ UNCHANGED <<file, markers, returned_any, created, marker_name, fps,
                   index_to_time, n_frames, n_loc_frames>>
    /\ UNCHANGED readVars

\* "for v in m" is exhausted: back to the loop of line 128
EndMarker ==
    /\ pc = "keyframes"
    /\ index = n_frames
    /\ pc' = "returned"
    /\ UNCHANGED <<exc, file, markers, returned_any>>
    /\ UNCHANGED readVars /\ UNCHANGED matVars

\* the locals of a call that has ended
DropLocals ==
    /\ data' = NoData
    /\ marker_names' = << >> /\ line' = << >> /\ nrows' = 0
    /\ all_numeric' = TRUE
    /\ created' = {} /\ marker_name' = ""
    /\ fps' = 0 /\ index_to_time' = Zero
    /\ n_frames' = 0 /\ n_loc_frames' = 0 /\ index' = 0
    /\ keyframe_index' = 0 /\ fcu' = NoFcu

\* every key visited: import_trc returns, execute returns {"FINISHED"}
Finish ==
    /\ ParseDone
    /\ Remaining = {}
    /\ pc' = "idle"
    /\ DropLocals
    /\ UNCHANGED <<exc, file, markers, returned_any>>

\* the exception leaves import_trc and execute; nothing closes the file
Propagate ==
    /\ pc = "failed"
    /\ pc' = "idle" /\ exc' = "none"
    /\ DropLocals
    /\ UNCHANGED <<file, markers, returned_any>>

Next ==
    \/ Execute \/ SkipHead \/ ReadHeader \/ ReadNames \/ SkipLabels
    \/ ReadLine \/ EndOfData
    \/ CreateObject \/ SetKeyframe \/ EndMarker \/ Finish \/ Propagate

Spec == Init /\ [][Next]_vars

TypeOK ==
    /\ pc \in {"idle", "skip_head", "header", "names", "skip_labels", "rows",
               "returned", "keyframes", "failed"}
    /\ file \in {"unopened", "open", "closed"}
    /\ DOMAIN markers \subseteq Names
    /\ nrows \in 0..MaxRows

\* ================================================================ claims
Reading == {"skip_head", "header", "names", "skip_labels", "rows"}
ParseErrors == {"StopIteration", "ValueError", "IndexError", "AssertionError"}

\* a step that is one iteration of "for line in reader"
IsReadLine == pc = "rows" /\ nrows' = nrows + 1
\* a step in which read_trc returns its dataset
IsReturn == pc = "rows" /\ pc' = "returned"

Last(s) == s[Len(s)]

\* C1: the dataset read_trc returns holds exactly the tracks named in the
\* name row of the file of that call, and import_trc adds objects only for
\* those names.
C1_OnlyTracksOfThisFile ==
    pc \in {"returned", "keyframes"} =>
        /\ DOMAIN markers = Range(marker_names)
        /\ created \subseteq Range(marker_names)

\* C2: once a dataset has been returned, no later step changes the marker
\* set or any track of it (every dataset shares TRCData.markers).
C2_ReturnedDatasetImmutable ==
    [][returned_any => markers' = markers]_vars

\* C3: when a call of read_trc has ended, by return or by exception, the
\* file it opened is closed.
C3_FileClosedOnEveryExit ==
    pc \notin Reading => file # "open"

\* C4: an object is added to the scene only after read_trc has returned,
\* and a call that fails inside read_trc has added none.
C4_ParsedBeforeAnyObject ==
    [][/\ (created' # created /\ created' # {}) => pc = "returned"
       /\ (pc' = "failed" /\ exc' \in ParseErrors) => created' = {}]_vars

C4_Witness ==
    /\ pc = "failed" /\ exc = "AssertionError"
    /\ nrows >= 2 /\ marker_names # << >> /\ created = {}

\* C5: a data row whose slice row[2:-1] is not a multiple of 3 long fails
\* the assertion at that row: every earlier row has given each marker one
\* sample and the offending row appends nothing.
C5_AssertOnFirstOffendingRow ==
    [][(IsReadLine /\ Len(TrimRow(line')) % 3 # 0) =>
            /\ pc' = "failed" /\ exc' = "AssertionError"
            /\ markers' = markers
            /\ \A k \in 1..Len(marker_names) :
                    Len(markers'[marker_names[k]]) = nrows]_vars

C5_Witness ==
    /\ pc = "failed" /\ exc = "AssertionError"
    /\ nrows >= 2 /\ Len(marker_names) = 2
    /\ Len(TrimRow(line)) % 3 # 0
    /\ \A k \in 1..2 : Len(markers[marker_names[k]]) = nrows - 1

\* C6 (as stated): a data row whose slice does not have exactly 3 fields
\* per marker fails read_trc at the assertion.
C6_AnyWidthMismatchAsserts ==
    [][(IsReadLine /\ Len(TrimRow(line')) # 3 * Len(marker_names)) =>
            (pc' = "failed" /\ exc' = "AssertionError")]_vars

\* C6 (amended): a slice that is not a multiple of 3 long fails the
\* assertion; a multiple of 3 shorter than 3 fields per marker fails with
\* IndexError; a multiple of 3 at least that long is accepted.
C6_WidthOutcome ==
    [][IsReadLine =>
            LET n == Len(TrimRow(line'))
                need == 3 * Len(marker_names)
            IN  /\ n % 3 # 0 => (pc' = "failed" /\ exc' = "AssertionError")
                /\ (n % 3 = 0 /\ n < need) =>
                        (pc' = "failed" /\ exc' = "IndexError")
                /\ (n % 3 = 0 /\ n >= need) => pc' = "rows"]_vars

C6_Witness ==
    /\ pc = "rows" /\ nrows >= 1 /\ marker_names # << >>
    /\ Len(TrimRow(line)) = 3 * Len(marker_names) + 3

\* the tokens C7 calls non-numeric
ClaimedNonNumeric == {"nan", ""}

\* C7 (as stated): on an accepted row, a marker whose triplet holds one of
\* the tokens "nan" or "" next to two numeric fields is recorded absent,
\* and every marker whose triplet is fully numeric is recorded present
\* with the values of its own three columns.
C7_NanOrBlankIsAbsent ==
    [][(IsReadLine /\ pc' = "rows") =>
            \A k \in 1..Len(marker_names) :
                LET co == SubSeq(TrimRow(line'), 3 * k - 2, 3 * k)
                    s == Last(markers'[marker_names[k]])
                    nn == {j \in 1..3 : co[j] \in ClaimedNonNumeric}
                IN  /\ (Cardinality(nn) = 1 /\
                        \A j \in (1..3) \ nn : IsFloat(co[j])) => s = None
                    /\ (nn = {} /\ \A j \in 1..3 : IsFloat(co[j])) =>
                        s = <<PyFloat(co[1]), PyFloat(co[2]), PyFloat(co[3])>>]_vars

\* C7 (amended): an accepted row has three columns for every marker, and
\* each marker gets exactly one sample, decided by its own columns alone: absent when float() rejects one
\* of them, otherwise present with their three values ("nan" converts).
C7_MarkerIsolation ==
    [][(IsReadLine /\ pc' = "rows") =>
        /\ Len(TrimRow(line')) >= 3 * Len(marker_names)
        /\  \A k \in 1..Len(marker_names) :
                LET co == SubSeq(TrimRow(line'), 3 * k - 2, 3 * k)
                    old == markers[marker_names[k]]
                    new == markers'[marker_names[k]]
                IN  /\ Len(new) = Len(old) + 1
                    /\ SubSeq(new, 1, Len(old)) = old
                    /\ (\E j \in 1..3 : ~IsFloat(co[j])) => Last(new) = None
                    /\ (\A j \in 1..3 : IsFloat(co[j])) =>
                        Last(new) = <<PyFloat(co[1]), PyFloat(co[2]),
                                      PyFloat(co[3])>>]_vars

C7_Witness ==
    /\ pc = "rows" /\ nrows >= 1 /\ Len(marker_names) = 2
    /\ SubSeq(TrimRow(line), 1, 6) = TripletB \o TripletN
    /\ Last(markers[marker_names[1]]) = None
    /\ Last(markers[marker_names[2]]) # None

\* C8: when every field of every data row converts, every track of the
\* returned dataset has one sample per data row and none is absent.
C8_AllNumericRoundTrip ==
    [][(IsReturn /\ all_numeric) =>
            \A n \in DOMAIN markers' :
                /\ Len(markers'[n]) = nrows
                /\ \A i \in 1..Len(markers'[n]) : markers'[n][i] # None]_vars

\* the timestamps written so far are those of frames 0 .. index-1, each
\* i * (fps / camera_rate), and strictly increasing
TimestampsIncrease ==
    /\ \A i \in 1..index :
            FEq(fcu.h[i].co[1],
                FMul(Fin(i - 1, 1), FDiv(Fin(fps, 1), data.camera_rate)))
    /\ \A i \in 1..(index - 1) : FLess(fcu.h[i].co[1], fcu.h[i + 1].co[1])

\* C9 (as stated): given camera_rate > 0, the timestamp of frame i is
\* i * (fps / camera_rate) and consecutive timestamps strictly increase.
C9_PositiveRateTimestamps ==
    (pc = "keyframes" /\ FLess(Zero, data.camera_rate)) => TimestampsIncrease

\* C9 (amended): the same given a finite camera_rate > 0.
C9_FiniteRateTimestamps ==
    (pc = "keyframes" /\ data.camera_rate.cls = "finite"
        /\ FLess(Zero, data.camera_rate)) => TimestampsIncrease

C9_Witness ==
    /\ pc = "keyframes" /\ index >= 2
    /\ data.camera_rate.cls = "finite" /\ FLess(Zero, data.camera_rate)

\* C10: in the keyframe loop the location cursor counts the present
\* samples seen and never passes the allocated location keyframes; each
\* frame seen has written its visibility slot once on both channels (1
\* for absent, 0 for present), each present sample one location slot, and
\* at the end every allocated keyframe has been written exactly once.
C10_KeyframeAccounting ==
    pc = "keyframes" =>
        LET m == markers[marker_name]
            present == {i \in 1..index : m[i] # None}
        IN  /\ keyframe_index = Cardinality(present)
            /\ keyframe_index <= Len(fcu.x)
            /\ Len(fcu.x) = n_loc_frames
            /\ Len(fcu.y) = n_loc_frames /\ Len(fcu.z) = n_loc_frames
            /\ Len(fcu.h) = n_frames /\ Len(fcu.r) = n_frames
            /\ \A i \in 1..n_frames :
                    /\ fcu.h[i].writes = IF i <= index THEN 1 ELSE 0
                    /\ fcu.r[i].writes = IF i <= index THEN 1 ELSE 0
                    /\ i <= index =>
                        /\ fcu.h[i].co[2] = IF m[i] = None THEN One ELSE Zero
                        /\ fcu.r[i].co[2] = IF m[i] = None THEN One ELSE Zero
            /\ \A k \in 1..Len(fcu.x) :
                    /\ fcu.x[k].writes = IF k <= keyframe_index THEN 1 ELSE 0
                    /\ fcu.y[k].writes = IF k <= keyframe_index THEN 1 ELSE 0
                    /\ fcu.z[k].writes = IF k <= keyframe_index THEN 1 ELSE 0
            /\ index = n_frames => keyframe_index = Len(fcu.x)

C10_Witness ==
    /\ pc = "keyframes" /\ index = n_frames /\ n_frames >= 2
    /\ 0 < n_loc_frames /\ n_loc_frames < n_frames

====
